---- MODULE Spec2Model ----
(***************************************************************************)
(* Model of the job/bookmark state manager of the JobFinder app            *)
(* (JobProvider in context/JobContext.js, with the calls JobsScreen.js     *)
(* and JobCard.js make into it).                                           *)
(*                                                                         *)
(* React state is modelled by two layers:                                  *)
(*   - the state variables themselves (bookmarks, jobs, loading, error,    *)
(*     currentPage): the value every setter call has produced so far, the  *)
(*     value a functional updater receives as `prev`;                      *)
(*   - view: the values of the last render, which is what the closures     *)
(*     handed to consumers (loadMoreJobs, isBookmarked, handleLoadMore)    *)
(*     read.  Render copies the state into view.                           *)
(* Every async function is cut at its awaits: one action per segment.      *)
(***************************************************************************)
EXTENDS Integers, Sequences, FiniteSets, Bags, TLC

\* ------------------------------------------------------------------ bounds
MaxPage == 2        \* pages requested are 1..MaxPage
MaxJobs == 2        \* the listing is not grown beyond this length
MaxInFlight == 2    \* fetchJobs calls that may be outstanding together
MaxBookmarks == 2   \* the bookmark list is not grown beyond this length
MaxSaves == 2       \* saveBookmarks calls that may be outstanding together

\* --------------------------------------------------------------- constants
NULL == "null"
FetchError == "Failed to fetch jobs. Please try again later."
LoadError == "Failed to load saved jobs"
SaveError == "Failed to save job"
ClearError == "Failed to clear bookmarks"
page == 1
hasMore == TRUE

\* ------------------------------------------------------------------- data
\* A JavaScript value: undefined (what reading a missing key gives), null,
\* an array, a number, a string, or an object (v: its keys and their values).
Undefined == [def |-> "undefined", v |-> <<>>]
JsNull == [def |-> "null", v |-> <<>>]
Arr(a) == [def |-> "array", v |-> a]
Num(n) == [def |-> "number", v |-> n]
Str(t) == [def |-> "string", v |-> t]
Obj(f) == [def |-> "object", v |-> f]
FieldsOver(A) == {Undefined, JsNull} \cup {Arr(a) : a \in A}

\* A job record: an object, its keys mapped to their values.  Job(i, r) is
\* the record with id i and view count r (two records with one id may
\* differ in content).
Job(i, r) == [id |-> Num(i), views |-> Num(r)]

Ids(s) == {s[i].id : i \in 1..Len(s)}
NoDupIds(s) == \A i, j \in 1..Len(s) : s[i].id = s[j].id => i = j

\* A parsed response body: an array, an object with results/jobs/data
\* fields, or anything else (null, a number, a string).
ArrayBody(a) == [kind |-> "array", items |-> a, results |-> Undefined, jobs |-> Undefined, data |-> Undefined]
ObjectBody(r, j, d) == [kind |-> "object", items |-> <<>>, results |-> r, jobs |-> j, data |-> d]
OtherBody == [kind |-> "other", items |-> <<>>, results |-> Undefined, jobs |-> Undefined, data |-> Undefined]
BodiesOver(A) ==
  {ArrayBody(a) : a \in A}
    \cup {ObjectBody(r, j, d) : r \in FieldsOver(A), j \in FieldsOver(A), d \in FieldsOver(A)}
    \cup {OtherBody}

\* Bodies the server sends in the listing specification: one body for each
\* page array, in the different envelope shapes.
ServerBodies ==
  {OtherBody,
   ArrayBody(<<Job(1, 1)>>),
   ObjectBody(Arr(<<Job(2, 1)>>), Undefined, Undefined),
   ObjectBody(Undefined, JsNull, Arr(<<Job(1, 1), Job(2, 1)>>))}

\* Bodies of the envelope specification: every combination of fields.
EnvelopeArrays == {<<>>, <<Job(1, 1)>>, <<Job(2, 1)>>}
EnvelopeBodies == BodiesOver(EnvelopeArrays)

\* ------------------------------------------------------------------ state
VARIABLES
  bookmarks,    \* useState([]) : [kind, jobs]; kind "array" or "bundle"
  jobs,         \* useState([]) : the fetched listing
  loading,      \* useState(true)
  error,        \* useState(null)
  currentPage,  \* useState(1)
  view,         \* values of the last render, read by the closures
  phase,        \* "new" -> "screen" -> "up": the mount effects; "crashed"
  fetches,      \* outstanding fetchJobs calls: a bag of [page, pc]
  load,         \* position of loadBookmarks
  saves,        \* outstanding saveBookmarks, clearBookmarks and
                \* verifyAndRepairBookmarks calls: a bag of [data, pc]
  primary,      \* AsyncStorage 'jobBookmarks'
  backup,       \* AsyncStorage 'jobBookmarks_backup'
  ev            \* the last segment of the program that ran, with its locals

vars == <<bookmarks, jobs, loading, error, currentPage, view, phase, fetches, load, saves, primary, backup, ev>>

\* what the listing fetcher owns, and what the bookmark store owns
listing == <<jobs, currentPage, fetches>>
store == <<bookmarks, load, saves, primary, backup>>

\* ---------------------------------------------------------------- storage
Absent == [kind |-> "absent", jobs |-> <<>>]
Corrupt == [kind |-> "corrupt", jobs |-> <<>>]
Bundle(s) == [kind |-> "bundle", jobs |-> s]
ArrayOf(s) == [kind |-> "array", jobs |-> s]

\* ----------------------------------------------------------------- events
\* op: the segment; page, body, arr (jobsArray, the toggled job, the data
\* written, the entry removed), prev (prevJobs, prevBookmarks): its
\* arguments and locals
Ev(op, p, b, a, q) == [op |-> op, page |-> p, body |-> b, arr |-> a, prev |-> q]
NoEv == Ev("none", 0, OtherBody, <<>>, <<>>)

\* =================================================================== fetch
\* a || b: the first operand when it is truthy.  An array, even an empty
\* one, and an object are truthy; undefined, null, 0 and "" are not.
Truthy(f) ==
  \/ f.def \in {"array", "object"}
  \/ f.def = "number" /\ f.v # 0
  \/ f.def = "string" /\ f.v # ""
Or(a, b) == IF Truthy(a) THEN a ELSE b

\* ExtractJobs with `jobs` looked up before `results`
ExtractJobs_jobsFirst(body) ==
  IF body.kind = "array" THEN body.items
  ELSE IF body.kind = "object"
       THEN Or(Or(Or(body.jobs, body.results), body.data), Arr(<<>>)).v
       ELSE <<>>

\* lines 160-169: jobsArray
ExtractJobs(body) ==
  IF body.kind = "array" THEN body.items
  ELSE IF body.kind = "object"
       THEN Or(Or(Or(body.results, body.jobs), body.data), Arr(<<>>)).v
       ELSE <<>>

\* ApplyPage that appends on every page, and one that replaces on every page
ApplyPage_concat(p, prevJobs, jobsArray) == prevJobs \o jobsArray
ApplyPage_replace(p, prevJobs, jobsArray) == jobsArray

\* lines 171-175: the next listing
ApplyPage(p, prevJobs, jobsArray) ==
  IF p = 1 THEN jobsArray ELSE prevJobs \o jobsArray

\* one element as a bag
One(x) == SetToBag({x})

\* StartFetch that leaves the error slot alone
StartFetch_keepsError(p) ==
  /\ loading' = TRUE
  /\ error' = error
  /\ fetches' = fetches (+) One([page |-> p, pc |-> "fetch"])

\* fetchJobs up to `await fetch(...)`
StartFetch(p) ==
  /\ loading' = TRUE
  /\ error' = NULL
  /\ fetches' = fetches (+) One([page |-> p, pc |-> "fetch"])

\* JobsScreen calls fetchJobs(1): the retry button (line 111) and
\* handleRefresh (line 83)
FetchJobs ==
  /\ phase = "up"
  /\ BagCardinality(fetches) < MaxInFlight
  /\ StartFetch(1)
  /\ ev' = Ev("fetchJobs", 1, OtherBody, <<>>, <<>>)
  /\ UNCHANGED <<jobs, currentPage, view, phase, store>>

\* loadMoreJobs, lines 187-191: `loading` and `currentPage` are the values of
\* the render that created the function.  When that `loading` is true the
\* call changes nothing (a stuttering step).
LoadMoreJobs ==
  /\ phase = "up"
  /\ ~view.loading
  /\ BagCardinality(fetches) < MaxInFlight
  /\ view.currentPage + 1 <= MaxPage
  /\ StartFetch(view.currentPage + 1)
  /\ ev' = Ev("loadMoreJobs", view.currentPage + 1, OtherBody, <<>>, <<>>)
  /\ UNCHANGED <<jobs, currentPage, view, phase, store>>

\* JobsScreen.handleLoadMore, lines 74-78: `loading` is the context value of
\* the render, page and hasMore are never set after useState
HandleLoadMore ==
  /\ phase = "up"
  /\ ~view.loading /\ hasMore
  /\ BagCardinality(fetches) < MaxInFlight
  /\ StartFetch(page + 1)
  /\ ev' = Ev("handleLoadMore", page + 1, OtherBody, <<>>, <<>>)
  /\ UNCHANGED <<jobs, currentPage, view, phase, store>>

\* `await fetch` resolves with response.ok: on to `await response.json()`
FetchResponseOk(f) ==
  /\ f.pc = "fetch"
  /\ fetches' = (fetches (-) One(f)) (+) One([f EXCEPT !.pc = "json"])
  /\ ev' = Ev("response", f.page, OtherBody, <<>>, <<>>)
  /\ UNCHANGED <<jobs, loading, error, currentPage, view, phase, store>>

\* FetchCatch that also moves the page counter to the failed page
FetchCatch_setsPage(f, why) ==
  /\ error' = FetchError
  /\ loading' = FALSE
  /\ currentPage' = f.page
  /\ fetches' = fetches (-) One(f)
  /\ ev' = Ev(why, f.page, OtherBody, <<>>, <<>>)
  /\ UNCHANGED <<jobs, view, phase, store>>

\* catch + finally of fetchJobs, lines 178-183
FetchCatch(f, why) ==
  /\ error' = FetchError
  /\ loading' = FALSE
  /\ fetches' = fetches (-) One(f)
  /\ ev' = Ev(why, f.page, OtherBody, <<>>, <<>>)
  /\ UNCHANGED <<jobs, currentPage, view, phase, store>>

\* `await fetch` rejects (transport failure) or resolves with !response.ok
FetchResponseFail(f) ==
  /\ f.pc = "fetch"
  /\ \E why \in {"fetchRejected", "fetchNotOk"} : FetchCatch(f, why)

\* `await response.json()` rejects: the body does not parse
FetchJsonFail(f) ==
  /\ f.pc = "json"
  /\ FetchCatch(f, "fetchBadJson")

\* FetchJsonOk that never moves the page counter back
FetchJsonOk_keepsMaxPage(f, body) ==
  /\ f.pc = "json"
  /\ LET p == f.page
         jobsArray == ExtractJobs(body)
     IN  /\ Len(ApplyPage(p, jobs, jobsArray)) <= MaxJobs
         /\ jobs' = ApplyPage(p, jobs, jobsArray)
         /\ currentPage' = IF p > currentPage THEN p ELSE currentPage
         /\ loading' = FALSE
         /\ fetches' = fetches (-) One(f)
         /\ ev' = Ev("fetchOk", p, body, jobsArray, jobs)
  /\ UNCHANGED <<error, view, phase, store>>

\* `await response.json()` resolves with body: lines 160-177 and finally
FetchJsonOk(f, body) ==
  /\ f.pc = "json"
  /\ LET p == f.page
         jobsArray == ExtractJobs(body)
     IN  /\ Len(ApplyPage(p, jobs, jobsArray)) <= MaxJobs
         /\ jobs' = ApplyPage(p, jobs, jobsArray)
         /\ currentPage' = p
         /\ loading' = FALSE
         /\ fetches' = fetches (-) One(f)
         /\ ev' = Ev("fetchOk", p, body, jobsArray, jobs)
  /\ UNCHANGED <<error, view, phase, store>>

\* =========================================================== loadBookmarks
\* JSON.parse of what getItem returned
Parses(stored) == stored.kind = "bundle"

\* loadBookmarks(retryCount) up to `await AsyncStorage.getItem`,
\* lines 113-116.  Its setLoading(true) is written by the caller's action:
\* both callers set the flag again before the segment ends.
StartLoad(retryCount) ==
  /\ load' = IF retryCount = 0 THEN "read0" ELSE "read1"

\* getItem resolves for loadBookmarks(0): lines 117-119, 120-129, 136-138
LoadRead0 ==
  /\ load = "read0"
  /\ \/ /\ primary.kind = "absent"
        /\ loading' = FALSE
        /\ load' = "done"
        /\ ev' = Ev("loadNone", 0, OtherBody, <<>>, <<>>)
        /\ UNCHANGED <<bookmarks, error>>
     \/ /\ Parses(primary)
        /\ bookmarks' = primary
        /\ loading' = FALSE
        /\ load' = "done"
        /\ ev' = Ev("loadOk", 0, OtherBody, <<>>, <<>>)
        /\ UNCHANGED error
     \/ /\ primary.kind = "corrupt"
        /\ load' = "remove"
        /\ ev' = Ev("loadCorrupt", 0, OtherBody, <<>>, <<>>)
        /\ UNCHANGED <<bookmarks, loading, error>>
  /\ UNCHANGED <<view, phase, listing, saves, primary, backup>>

\* LoadRemoveOk that retries with the retry count it was given
LoadRemoveOk_sameCount ==
  /\ load = "remove"
  /\ primary' = Absent
  /\ StartLoad(0)
  /\ loading' = FALSE
  /\ ev' = Ev("loadRetry", 0, OtherBody, <<primary>>, <<>>)
  /\ UNCHANGED <<bookmarks, error, view, phase, listing, saves, backup>>

\* removeItem resolves: `return loadBookmarks(retryCount + 1)` runs the
\* retry up to its getItem (setLoading(true)), then the finally of the
\* outer call runs (setLoading(false)) before the retry has read anything
LoadRemoveOk ==
  /\ load = "remove"
  /\ primary' = Absent
  /\ StartLoad(1)
  /\ loading' = FALSE
  /\ ev' = Ev("loadRetry", 1, OtherBody, <<primary>>, <<>>)
  /\ UNCHANGED <<bookmarks, error, view, phase, listing, saves, backup>>

\* removeItem rejects: lines 130-138
LoadRemoveFail ==
  /\ load = "remove"
  /\ error' = LoadError
  /\ loading' = FALSE
  /\ load' = "done"
  /\ ev' = Ev("loadRemoveFailed", 0, OtherBody, <<>>, <<>>)
  /\ UNCHANGED <<bookmarks, view, phase, listing, saves, primary, backup>>

\* getItem resolves for loadBookmarks(1)
LoadRead1 ==
  /\ load = "read1"
  /\ \/ /\ primary.kind = "absent"
        /\ ev' = Ev("loadNone", 1, OtherBody, <<>>, <<>>)
        /\ UNCHANGED <<bookmarks, error>>
     \/ /\ Parses(primary)
        /\ bookmarks' = primary
        /\ ev' = Ev("loadOk", 1, OtherBody, <<>>, <<>>)
        /\ UNCHANGED error
     \/ /\ primary.kind = "corrupt"
        /\ error' = LoadError
        /\ ev' = Ev("loadFailed", 1, OtherBody, <<>>, <<>>)
        /\ UNCHANGED bookmarks
  /\ loading' = FALSE
  /\ load' = "done"
  /\ UNCHANGED <<view, phase, listing, saves, primary, backup>>

\* LoadReadFail without the retryCount test: every failed read retries
LoadReadFail_noCap ==
  /\ load \in {"read0", "read1"}
  /\ load' = "remove"
  /\ ev' = Ev("loadReadFailed", IF load = "read0" THEN 0 ELSE 1, OtherBody, <<>>, <<>>)
  /\ UNCHANGED <<bookmarks, loading, error, view, phase, listing, saves, primary, backup>>

\* getItem rejects: the catch of either call
LoadReadFail ==
  /\ load \in {"read0", "read1"}
  /\ IF load = "read0"
     THEN /\ load' = "remove"
          /\ UNCHANGED <<loading, error>>
     ELSE /\ error' = LoadError
          /\ loading' = FALSE
          /\ load' = "done"
  /\ ev' = Ev("loadReadFailed", IF load = "read0" THEN 0 ELSE 1, OtherBody, <<>>, <<>>)
  /\ UNCHANGED <<bookmarks, view, phase, listing, saves, primary, backup>>

\* ========================================================= toggleBookmark
\* isBookmarked, lines 281-283, over the bookmarks of one render
IsBookmarked(bm, jobId) == \E i \in 1..Len(bm.jobs) : bm.jobs[i].id = jobId

\* what a call isBookmarked(jobId) gives its caller: bookmarks.some is no
\* function when `bookmarks` is the parsed bundle object
IsBookmarkedResult(bm, jobId) ==
  IF bm.kind # "array" THEN "TypeError"
  ELSE IF IsBookmarked(bm, jobId) THEN "true" ELSE "false"

\* the keys of the object literal of lines 229-254
Whitelist ==
  {"id", "title", "company_name", "salary", "salary_min", "salary_max",
   "experience", "locality", "city_location", "job_type", "qualification",
   "primary_details", "contentV3", "other_details", "whatsapp_no", "phone",
   "job_tags", "openings_count", "tags", "created_on", "updated_on",
   "expire_on", "views"}

\* job.k, and o.k for a truthy o (undefined when o is no object)
Get(job, k) == IF k \in DOMAIN job THEN job[k] ELSE Undefined
Member(o, k) == IF o.def = "object" /\ k \in DOMAIN o.v THEN o.v[k] ELSE Undefined

\* job.primary_details && job.primary_details.K
Detail(job, K) ==
  LET primary_details == Get(job, "primary_details")
  IN  IF Truthy(primary_details) THEN Member(primary_details, K) ELSE primary_details

\* Resolve that takes the primary_details value whatever the type of job.k
Resolve_anyType(job, k, K) ==
  IF Truthy(Detail(job, K)) THEN Detail(job, K) ELSE Get(job, k)

\* lines 204-222: processedExperience, processedJobType,
\* processedQualification
Resolve(job, k, K) ==
  IF Get(job, k).def = "number" /\ Truthy(Detail(job, K))
  THEN Detail(job, K)
  ELSE Get(job, k)

\* ResolveSalary that prefers the top-level salary
ResolveSalary_topFirst(job) ==
  LET processedSalary == IF Truthy(Detail(job, "Salary")) THEN Detail(job, "Salary") ELSE JsNull
  IN  Or(Get(job, "salary"), processedSalary)

\* lines 207, 224-227, 233: processedSalary || job.salary
ResolveSalary(job) ==
  LET processedSalary == IF Truthy(Detail(job, "Salary")) THEN Detail(job, "Salary") ELSE JsNull
  IN  Or(processedSalary, Get(job, "salary"))

\* EssentialLiteral that copies the record and overrides the resolved keys
EssentialLiteral_spread(job) ==
  [k \in Whitelist \cup DOMAIN job |->
     CASE k = "salary" -> ResolveSalary(job)
       [] k = "experience" -> Resolve(job, "experience", "Experience")
       [] k = "job_type" -> Resolve(job, "job_type", "Job_Type")
       [] k = "qualification" -> Resolve(job, "qualification", "Qualification")
       [] OTHER -> Get(job, k)]

\* lines 229-254: the object literal the map callback returns
EssentialLiteral(job) ==
  [k \in Whitelist |->
     CASE k = "salary" -> ResolveSalary(job)
       [] k = "experience" -> Resolve(job, "experience", "Experience")
       [] k = "job_type" -> Resolve(job, "job_type", "Job_Type")
       [] k = "qualification" -> Resolve(job, "qualification", "Qualification")
       [] OTHER -> Get(job, k)]

\* JSON.stringify (line 263) of an object, as JSON.parse reads it back: a
\* key whose value is undefined is not written
Stringified(o) == [k \in {x \in DOMAIN o : o[x].def # "undefined"} |-> o[k]]

\* lines 202-255 and 263: the essential projection of one record as it is
\* persisted
Essential(job) == Stringified(EssentialLiteral(job))
EssentialJobData(s) == [i \in 1..Len(s) |-> Essential(s[i])]

\* the updater of toggleBookmark, lines 306-329: isBookmarked reads the
\* bookmarks of the render that created toggleBookmark, the list that is
\* filtered or extended is prevBookmarks
UpdatedBookmarks(seen, prevBookmarks, job) ==
  IF IsBookmarked(seen, job.id)
  THEN LET Keep(b) == b.id # job.id IN SelectSeq(prevBookmarks, Keep)
  ELSE Append(prevBookmarks, job)

\* StartSave that writes nothing when the list has become empty
StartSave_skipsEmpty(updatedBookmarks) ==
  saves' = IF updatedBookmarks = <<>>
           THEN saves
           ELSE saves (+) One([data |-> EssentialJobData(updatedBookmarks), pc |-> "primary"])

\* saveBookmarks up to `await AsyncStorage.setItem('jobBookmarks', ...)`,
\* lines 194-263, for an array
StartSave(updatedBookmarks) ==
  saves' = saves (+) One([data |-> EssentialJobData(updatedBookmarks), pc |-> "primary"])

\* toggleBookmark(job), lines 302-330.  bookmarks.some, prevBookmarks.filter
\* and the spread of prevBookmarks throw a TypeError when the value is the
\* parsed bundle object that loadBookmarks stored: the exception is not
\* caught anywhere and ends the app.
ToggleBookmark(job) ==
  /\ phase = "up"
  /\ IF view.bookmarks.kind = "array" /\ bookmarks.kind = "array"
     THEN LET updatedBookmarks == UpdatedBookmarks(view.bookmarks, bookmarks.jobs, job)
          IN  /\ Len(updatedBookmarks) <= MaxBookmarks
              /\ BagCardinality(saves) < MaxSaves
              /\ bookmarks' = ArrayOf(updatedBookmarks)
              /\ StartSave(updatedBookmarks)
              /\ ev' = Ev("toggle", job.id, OtherBody, <<job>>, bookmarks.jobs)
              /\ UNCHANGED phase
     ELSE /\ phase' = "crashed"
          /\ ev' = Ev("toggleThrew", job.id, OtherBody, <<job>>, <<>>)
          /\ UNCHANGED <<bookmarks, saves>>
  /\ UNCHANGED <<loading, error, view, listing, load, primary, backup>>

\* ============================================================ saveBookmarks
\* setItem('jobBookmarks') resolves: on to setItem('jobBookmarks_backup')
SavePrimaryOk(s) ==
  /\ s.pc = "primary"
  /\ primary' = Bundle(s.data)
  /\ saves' = (saves (-) One(s)) (+) One([s EXCEPT !.pc = "backup"])
  /\ ev' = Ev("savedPrimary", 0, OtherBody, s.data, <<>>)
  /\ UNCHANGED <<bookmarks, loading, error, view, phase, listing, load, backup>>

\* setItem('jobBookmarks_backup') resolves: saveBookmarks returns
SaveBackupOk(s) ==
  /\ s.pc = "backup"
  /\ backup' = Bundle(s.data)
  /\ saves' = saves (-) One(s)
  /\ ev' = Ev("savedBackup", 0, OtherBody, s.data, <<>>)
  /\ UNCHANGED <<bookmarks, loading, error, view, phase, listing, load, primary>>

\* SaveInvalid that returns without reporting
SaveInvalid_silent(updatedBookmarks) ==
  /\ phase = "up"
  /\ updatedBookmarks.def # "array"
  /\ ev' = Ev("saveInvalid", 0, OtherBody, <<updatedBookmarks>>, <<>>)
  /\ UNCHANGED <<bookmarks, loading, error, view, phase, listing, load, saves, primary, backup>>

\* saveBookmarks(updatedBookmarks) for a value that is no array: the throw
\* of line 198 and the catch, lines 268-278
SaveInvalid(updatedBookmarks) ==
  /\ phase = "up"
  /\ updatedBookmarks.def # "array"
  /\ error' = SaveError
  /\ ev' = Ev("saveInvalid", 0, OtherBody, <<updatedBookmarks>>, <<>>)
  /\ UNCHANGED <<bookmarks, loading, view, phase, listing, load, saves, primary, backup>>

\* either setItem rejects: the catch, lines 268-278
SaveFail(s) ==
  /\ s.pc \in {"primary", "backup"}
  /\ error' = SaveError
  /\ saves' = saves (-) One(s)
  /\ ev' = Ev(IF s.pc = "primary" THEN "savePrimaryFailed" ELSE "saveBackupFailed", 0, OtherBody, s.data, <<>>)
  /\ UNCHANGED <<bookmarks, loading, view, phase, listing, load, primary, backup>>

\* =========================================================== clearBookmarks
\* The prompt of clearBookmarks is answered with Cancel: no handler runs
ClearCancel ==
  /\ phase = "up"
  /\ ev' = Ev("clearCancel", 0, OtherBody, <<>>, bookmarks.jobs)
  /\ UNCHANGED <<bookmarks, loading, error, view, phase, listing, load, saves, primary, backup>>

\* The prompt is answered with Clear All: onPress up to
\* `await AsyncStorage.removeItem('jobBookmarks')`, lines 341-343
ClearConfirm ==
  /\ phase = "up"
  /\ BagCardinality(saves) < MaxSaves
  /\ saves' = saves (+) One([data |-> <<>>, pc |-> "clear"])
  /\ ev' = Ev("clearConfirm", 0, OtherBody, <<>>, bookmarks.jobs)
  /\ UNCHANGED <<bookmarks, loading, error, view, phase, listing, load, primary, backup>>

\* ClearRemoveOk that removes the backup copy as well
ClearRemoveOk_both(s) ==
  /\ s.pc = "clear"
  /\ primary' = Absent
  /\ backup' = Absent
  /\ bookmarks' = ArrayOf(<<>>)
  /\ saves' = saves (-) One(s)
  /\ ev' = Ev("clearOk", 0, OtherBody, <<>>, bookmarks.jobs)
  /\ UNCHANGED <<loading, error, view, phase, listing, load>>

\* removeItem resolves: setBookmarks([]), lines 344-346
ClearRemoveOk(s) ==
  /\ s.pc = "clear"
  /\ primary' = Absent
  /\ bookmarks' = ArrayOf(<<>>)
  /\ saves' = saves (-) One(s)
  /\ ev' = Ev("clearOk", 0, OtherBody, <<>>, bookmarks.jobs)
  /\ UNCHANGED <<loading, error, view, phase, listing, load, backup>>

\* ClearRemoveFail of a handler that empties the list before it removes
ClearRemoveFail_emptied(s) ==
  /\ s.pc = "clear"
  /\ error' = ClearError
  /\ bookmarks' = ArrayOf(<<>>)
  /\ saves' = saves (-) One(s)
  /\ ev' = Ev("clearFailed", 0, OtherBody, <<>>, bookmarks.jobs)
  /\ UNCHANGED <<loading, view, phase, listing, load, primary, backup>>

\* removeItem rejects: the catch, lines 347-350
ClearRemoveFail(s) ==
  /\ s.pc = "clear"
  /\ error' = ClearError
  /\ saves' = saves (-) One(s)
  /\ ev' = Ev("clearFailed", 0, OtherBody, <<>>, bookmarks.jobs)
  /\ UNCHANGED <<bookmarks, loading, view, phase, listing, load, primary, backup>>

\* ================================================ verifyAndRepairBookmarks
\* what getItem gives for a key is truthy when the key holds a string
Stored(value) == value.kind # "absent"

\* JSON.parse of a stored string; the catch of line 370 returns [] when it
\* throws
ParsedOrEmpty(value) == IF Parses(value) THEN value ELSE ArrayOf(<<>>)

\* NeedsRestore that never restores
NeedsRestore_never(mainBookmarks, backupBookmarks) == FALSE

\* NeedsRestore that does not look at the primary
NeedsRestore_backupOnly(mainBookmarks, backupBookmarks) == Stored(backupBookmarks)

\* line 363: !mainBookmarks && backupBookmarks
NeedsRestore(mainBookmarks, backupBookmarks) ==
  ~Stored(mainBookmarks) /\ Stored(backupBookmarks)

\* verifyAndRepairBookmarks() up to `await getItem('jobBookmarks')`
VerifyAndRepairBookmarks ==
  /\ phase = "up"
  /\ BagCardinality(saves) < MaxSaves
  /\ saves' = saves (+) One([data |-> <<>>, pc |-> "verifyMain"])
  /\ ev' = Ev("verify", 0, OtherBody, <<>>, <<>>)
  /\ UNCHANGED <<bookmarks, loading, error, view, phase, listing, load, primary, backup>>

\* getItem('jobBookmarks') resolves: on to getItem('jobBookmarks_backup')
VerifyMainOk(s) ==
  /\ s.pc = "verifyMain"
  /\ saves' = (saves (-) One(s)) (+) One([data |-> <<primary>>, pc |-> "verifyBackup"])
  /\ ev' = Ev("verifyReadMain", 0, OtherBody, <<>>, <<primary>>)
  /\ UNCHANGED <<bookmarks, loading, error, view, phase, listing, load, primary, backup>>

\* getItem('jobBookmarks_backup') resolves: lines 363-369.  Either on to
\* the setItem of line 365, or the function returns (ev.arr: the value
\* returned; ev.prev: mainBookmarks, backupBookmarks)
VerifyBackupOk(s) ==
  /\ s.pc = "verifyBackup"
  /\ LET mainBookmarks == s.data[1]
         backupBookmarks == backup
     IN  IF NeedsRestore(mainBookmarks, backupBookmarks)
         THEN /\ saves' = (saves (-) One(s)) (+) One([data |-> <<mainBookmarks, backupBookmarks>>, pc |-> "restore"])
              /\ ev' = Ev("verifyRestoring", 0, OtherBody, <<>>, <<mainBookmarks, backupBookmarks>>)
         ELSE /\ saves' = saves (-) One(s)
              /\ ev' = Ev("verifyReturn", 0, OtherBody, <<ParsedOrEmpty(mainBookmarks)>>, <<mainBookmarks, backupBookmarks>>)
  /\ UNCHANGED <<bookmarks, loading, error, view, phase, listing, load, primary, backup>>

\* VerifyRestoreOk that returns the backup without writing it
VerifyRestoreOk_noWrite(s) ==
  /\ s.pc = "restore"
  /\ saves' = saves (-) One(s)
  /\ ev' = Ev("verifyRestored", 0, OtherBody, <<ParsedOrEmpty(s.data[2])>>, s.data)
  /\ UNCHANGED <<bookmarks, loading, error, view, phase, listing, load, primary, backup>>

\* setItem('jobBookmarks', backupBookmarks) resolves: line 366 returns
VerifyRestoreOk(s) ==
  /\ s.pc = "restore"
  /\ primary' = s.data[2]
  /\ saves' = saves (-) One(s)
  /\ ev' = Ev("verifyRestored", 0, OtherBody, <<ParsedOrEmpty(s.data[2])>>, s.data)
  /\ UNCHANGED <<bookmarks, loading, error, view, phase, listing, load, backup>>

\* one of the three storage calls rejects: the catch, lines 370-373
VerifyFail(s) ==
  /\ s.pc \in {"verifyMain", "verifyBackup", "restore"}
  /\ saves' = saves (-) One(s)
  /\ ev' = Ev("verifyFailed", 0, OtherBody, <<ArrayOf(<<>>)>>, s.data)
  /\ UNCHANGED <<bookmarks, loading, error, view, phase, listing, load, primary, backup>>

\* ================================================================== mount
\* The effects of the first commit run child first: JobsScreen's
\* fetchJobs(1, true), then the provider's loadBookmarks(); fetchJobs(1).
JobsScreenMount ==
  /\ phase = "new"
  /\ phase' = "screen"
  /\ StartFetch(1)
  /\ ev' = Ev("screenMount", 1, OtherBody, <<>>, <<>>)
  /\ UNCHANGED <<bookmarks, jobs, currentPage, view, load, saves, primary, backup>>

ProviderMount ==
  /\ phase = "screen"
  /\ phase' = "up"
  /\ StartLoad(0)
  /\ StartFetch(1)
  /\ ev' = Ev("providerMount", 1, OtherBody, <<>>, <<>>)
  /\ UNCHANGED <<bookmarks, jobs, currentPage, view, saves, primary, backup>>

\* ================================================================= render
Snapshot == [bookmarks |-> bookmarks, loading |-> loading, currentPage |-> currentPage]

\* React re-renders the provider and its consumers from the current state
Render ==
  /\ phase = "up"
  /\ view # Snapshot
  /\ view' = Snapshot
  /\ UNCHANGED <<loading, error, phase, listing, store, ev>>

\* ========================================================== specifications
\* Storage at the start of the listing specifications: a first run, and a
\* run that finds a damaged primary.
StartPairs ==
  {<<Absent, Absent>>,
   <<Corrupt, Bundle(<<Job(1, 1)>>)>>}

\* What an earlier run may have left in storage: nothing, a saved bundle
\* under both keys, a cleared primary, a damaged primary.
StoredPairs ==
  {<<Absent, Absent>>,
   <<Bundle(<<Job(1, 1)>>), Bundle(<<Job(1, 1)>>)>>,
   <<Absent, Bundle(<<Job(1, 1)>>)>>,
   <<Corrupt, Bundle(<<Job(1, 1)>>)>>}

Init ==
  /\ bookmarks = ArrayOf(<<>>)
  /\ jobs = <<>>
  /\ loading = TRUE
  /\ error = NULL
  /\ currentPage = 1
  /\ view = [bookmarks |-> ArrayOf(<<>>), loading |-> TRUE, currentPage |-> 1]
  /\ phase = "new"
  /\ fetches = EmptyBag
  /\ load = "idle"
  /\ saves = EmptyBag
  /\ \E pair \in StartPairs : primary = pair[1] /\ backup = pair[2]
  /\ ev = NoEv

FetchSteps(B) ==
  /\ phase # "crashed"
  /\ \E f \in BagToSet(fetches) :
       \/ FetchResponseOk(f)
       \/ FetchResponseFail(f)
       \/ FetchJsonFail(f)
       \/ \E body \in B : FetchJsonOk(f, body)

LoadSteps ==
  /\ phase # "crashed"
  /\ \/ LoadRead0
     \/ LoadRemoveOk
     \/ LoadRemoveFail
     \/ LoadRead1
     \/ LoadReadFail

SaveSteps ==
  /\ phase # "crashed"
  /\ \E s \in BagToSet(saves) :
       \/ SavePrimaryOk(s)
       \/ SaveBackupOk(s)
       \/ SaveFail(s)

\* The listing fetcher: the consumer fetches and pages, never bookmarks.
Next ==
  \/ JobsScreenMount
  \/ ProviderMount
  \/ FetchJobs
  \/ LoadMoreJobs
  \/ HandleLoadMore
  \/ FetchSteps(ServerBodies)
  \/ LoadSteps
  \/ Render

Spec == Init /\ [][Next]_vars

\* The startup fetches alone, answered with every envelope shape.
NextEnvelope ==
  \/ JobsScreenMount
  \/ ProviderMount
  \/ FetchSteps(EnvelopeBodies)
  \/ LoadSteps
  \/ Render

SpecEnvelope == Init /\ [][NextEnvelope]_vars

\* The bookmark store.  It starts where Spec arrives when both startup
\* fetches have delivered the same page 1 and have been rendered, while the
\* getItem of loadBookmarks is still outstanding (with any of StoredPairs
\* in storage); from there the consumer bookmarks the jobs on screen and
\* never fetches again.
StoreListing == <<Job(1, 1), Job(2, 1)>>

InitStore ==
  /\ bookmarks = ArrayOf(<<>>)
  /\ jobs = StoreListing
  /\ loading = FALSE
  /\ error = NULL
  /\ currentPage = 1
  /\ view = [bookmarks |-> ArrayOf(<<>>), loading |-> FALSE, currentPage |-> 1]
  /\ phase = "up"
  /\ fetches = EmptyBag
  /\ load = "read0"
  /\ saves = EmptyBag
  /\ \E pair \in StoredPairs : primary = pair[1] /\ backup = pair[2]
  /\ ev = Ev("fetchOk", 1, ObjectBody(Undefined, JsNull, Arr(StoreListing)), StoreListing, StoreListing)

NextStore ==
  \/ \E i \in 1..Len(jobs) : ToggleBookmark(jobs[i])
  \/ SaveSteps
  \/ LoadSteps
  \/ Render

SpecStore == InitStore /\ [][NextStore]_vars

ClearSteps ==
  /\ phase # "crashed"
  /\ \E s \in BagToSet(saves) :
       \/ ClearRemoveOk(s)
       \/ ClearRemoveFail(s)

VerifySteps ==
  /\ phase # "crashed"
  /\ \E s \in BagToSet(saves) :
       \/ VerifyMainOk(s)
       \/ VerifyBackupOk(s)
       \/ VerifyRestoreOk(s)
       \/ VerifyFail(s)

\* Clearing and repairing.  The listing holds one record; the bookmark list
\* and the two keys are as earlier use has left them: nothing bookmarked,
\* one or two bookmarks saved, a bundle loaded at the start, a primary
\* cleared or lost with the backup still there, a backup that was never
\* written, a damaged primary that could not be removed.
RepairStarts ==
  {<<ArrayOf(<<>>), Absent, Absent>>,
   <<ArrayOf(<<Job(1, 1)>>), Bundle(<<Job(1, 1)>>), Bundle(<<Job(1, 1)>>)>>,
   <<ArrayOf(<<Job(1, 1), Job(2, 1)>>), Bundle(<<Job(1, 1), Job(2, 1)>>), Bundle(<<Job(1, 1)>>)>>,
   <<Bundle(<<Job(1, 1)>>), Bundle(<<Job(1, 1)>>), Bundle(<<Job(1, 1)>>)>>,
   <<ArrayOf(<<>>), Absent, Bundle(<<Job(1, 1)>>)>>,
   <<ArrayOf(<<Job(2, 1)>>), Bundle(<<Job(2, 1)>>), Absent>>,
   <<ArrayOf(<<>>), Corrupt, Bundle(<<Job(2, 1)>>)>>}

InitRepair ==
  /\ \E start \in RepairStarts :
       /\ bookmarks = start[1]
       /\ view = [bookmarks |-> start[1], loading |-> FALSE, currentPage |-> 1]
       /\ primary = start[2]
       /\ backup = start[3]
  /\ jobs = <<Job(1, 1)>>
  /\ loading = FALSE
  /\ error = NULL
  /\ currentPage = 1
  /\ phase = "up"
  /\ fetches = EmptyBag
  /\ load = "done"
  /\ saves = EmptyBag
  /\ ev = Ev("fetchOk", 1, ArrayBody(<<Job(1, 1)>>), <<Job(1, 1)>>, <<>>)

NextRepair ==
  \/ ClearCancel
  \/ ClearConfirm
  \/ ClearSteps
  \/ VerifyAndRepairBookmarks
  \/ VerifySteps
  \/ Render

SpecRepair == InitRepair /\ [][NextRepair]_vars

\* saveBookmarks as a function of the record: the listing holds one record
\* of any of the shapes below, nothing is stored yet, and the consumer
\* bookmarks the record once; saveBookmarks is also handed values that are
\* no arrays.
DetailObjects ==
  [Experience : {Undefined, JsNull, Num(0), Str(""), Str("2-4 yrs")},
   Job_Type : {Undefined, Str(""), Str("Full time")},
   Qualification : {Undefined, Str("Graduate")},
   Salary : {Undefined, Str(""), Str("15000")}]

RawJobs ==
  {Stringified(o) :
     o \in [id : {Num(5)},
            experience : {Undefined, Num(3), Num(0), Str("1 yr")},
            job_type : {Undefined, Num(1), Str("Part time")},
            qualification : {Undefined, Num(2)},
            salary : {Undefined, Str("12000")},
            primary_details : {Undefined, JsNull, Str("n/a")} \cup {Obj(Stringified(d)) : d \in DetailObjects},
            fee_details : {Undefined, Str("none")}]}

\* values that are no arrays: undefined, null, a string, and the bundle
\* object loadBookmarks puts into `bookmarks`
NonArrays ==
  {Undefined, JsNull, Str("[]"), Obj([timestamp |-> Str("t"), jobs |-> Arr(<<Job(1, 1)>>)])}

InitSave ==
  /\ bookmarks = ArrayOf(<<>>)
  /\ \E raw \in RawJobs :
       /\ jobs = <<raw>>
       /\ ev = Ev("fetchOk", 1, ArrayBody(<<raw>>), <<raw>>, <<>>)
  /\ loading = FALSE
  /\ error = NULL
  /\ currentPage = 1
  /\ view = [bookmarks |-> ArrayOf(<<>>), loading |-> FALSE, currentPage |-> 1]
  /\ phase = "up"
  /\ fetches = EmptyBag
  /\ load = "done"
  /\ saves = EmptyBag
  /\ primary = Absent
  /\ backup = Absent

\* the one press on the bookmark button of the record
BookmarkOnce ==
  /\ bookmarks = ArrayOf(<<>>)
  /\ saves = EmptyBag
  /\ primary = Absent
  /\ ToggleBookmark(jobs[1])

NextSave ==
  \/ BookmarkOnce
  \/ \E u \in NonArrays : SaveInvalid(u)
  \/ SaveSteps
  \/ Render

SpecSave == InitSave /\ [][NextSave]_vars

\* loadBookmarks alone: the state when loadBookmarks() has run up to its
\* getItem and nothing else of the provider is running, over what earlier
\* runs may have left under the two keys.
LoadBundles ==
  {Bundle(EssentialJobData(s)) :
     s \in {<<>>, <<Job(1, 1)>>, <<Job(2, 1)>>, <<Job(1, 1), Job(2, 1)>>, <<Job(2, 1), Job(1, 2)>>}}

LoadPairs == ({Absent, Corrupt} \cup LoadBundles) \X ({Absent} \cup LoadBundles)

InitLoad ==
  /\ bookmarks = ArrayOf(<<>>)
  /\ jobs = <<>>
  /\ loading = TRUE
  /\ error = NULL
  /\ currentPage = 1
  /\ view = [bookmarks |-> ArrayOf(<<>>), loading |-> TRUE, currentPage |-> 1]
  /\ phase = "up"
  /\ fetches = EmptyBag
  /\ load = "read0"
  /\ saves = EmptyBag
  /\ \E pair \in LoadPairs : primary = pair[1] /\ backup = pair[2]
  /\ ev = Ev("loadBookmarks", 0, OtherBody, <<>>, <<>>)

NextLoad ==
  \/ LoadSteps
  \/ Render

SpecLoad == InitLoad /\ [][NextLoad]_vars

\* A damaged primary at the start: loadBookmarks runs alone over invalid
\* JSON under the primary key and a one-job bundle under the backup key, and
\* the consumer calls verifyAndRepairBookmarks once the load has ended.
DamagedBackups ==
  {Bundle(EssentialJobData(<<j>>)) : j \in {Job(1, 1), Job(2, 1), Job(1, 2)}}

InitDamaged ==
  /\ bookmarks = ArrayOf(<<>>)
  /\ jobs = <<>>
  /\ loading = TRUE
  /\ error = NULL
  /\ currentPage = 1
  /\ view = [bookmarks |-> ArrayOf(<<>>), loading |-> TRUE, currentPage |-> 1]
  /\ phase = "up"
  /\ fetches = EmptyBag
  /\ load = "read0"
  /\ saves = EmptyBag
  /\ primary = Corrupt
  /\ backup \in DamagedBackups
  /\ ev = Ev("loadBookmarks", 0, OtherBody, <<>>, <<>>)

VerifyAfterLoad ==
  /\ load = "done"
  /\ VerifyAndRepairBookmarks

NextDamaged ==
  \/ LoadSteps
  \/ VerifyAfterLoad
  \/ VerifySteps
  \/ Render

SpecDamaged == InitDamaged /\ [][NextDamaged]_vars

\* Save, clear, repair, one after the other: a first run in which the
\* consumer bookmarks the record on screen, and calls clearBookmarks and
\* verifyAndRepairBookmarks only when no storage call is outstanding.
InitCleared ==
  /\ bookmarks = ArrayOf(<<>>)
  /\ jobs = <<Job(1, 1)>>
  /\ loading = FALSE
  /\ error = NULL
  /\ currentPage = 1
  /\ view = [bookmarks |-> ArrayOf(<<>>), loading |-> FALSE, currentPage |-> 1]
  /\ phase = "up"
  /\ fetches = EmptyBag
  /\ load = "done"
  /\ saves = EmptyBag
  /\ primary = Absent
  /\ backup = Absent
  /\ ev = Ev("fetchOk", 1, ArrayBody(<<Job(1, 1)>>), <<Job(1, 1)>>, <<>>)

ClearWhenIdle ==
  /\ saves = EmptyBag
  /\ \/ ClearCancel
     \/ ClearConfirm

VerifyWhenIdle ==
  /\ saves = EmptyBag
  /\ VerifyAndRepairBookmarks

NextCleared ==
  \/ BookmarkOnce
  \/ SaveSteps
  \/ ClearWhenIdle
  \/ ClearSteps
  \/ VerifyWhenIdle
  \/ VerifySteps
  \/ Render

SpecCleared == InitCleared /\ [][NextCleared]_vars

\* The error slot.  The listing holds one record and loadBookmarks is
\* reading; the consumer bookmarks the record, clears, and fetches again
\* when an error is shown (the retry button).
SlotBodies == {ArrayBody(<<Job(1, 1)>>)}

InitSlot ==
  /\ bookmarks = ArrayOf(<<>>)
  /\ jobs = <<Job(1, 1)>>
  /\ loading = FALSE
  /\ error = NULL
  /\ currentPage = 1
  /\ view = [bookmarks |-> ArrayOf(<<>>), loading |-> FALSE, currentPage |-> 1]
  /\ phase = "up"
  /\ fetches = EmptyBag
  /\ load = "read0"
  /\ saves = EmptyBag
  /\ \E pair \in StartPairs : primary = pair[1] /\ backup = pair[2]
  /\ ev = Ev("fetchOk", 1, ArrayBody(<<Job(1, 1)>>), <<Job(1, 1)>>, <<Job(1, 1)>>)

FetchAfterError ==
  /\ error # NULL
  /\ FetchJobs

NextSlot ==
  \/ LoadSteps
  \/ FetchAfterError
  \/ FetchSteps(SlotBodies)
  \/ BookmarkOnce
  \/ SaveSteps
  \/ ClearWhenIdle
  \/ ClearSteps
  \/ Render

SpecSlot == InitSlot /\ [][NextSlot]_vars

\* Toggling alone: a first run with nothing stored and the load ended; the
\* consumer bookmarks and unbookmarks the one job on screen.
InitToggle ==
  /\ bookmarks = ArrayOf(<<>>)
  /\ jobs = <<Job(1, 1)>>
  /\ loading = FALSE
  /\ error = NULL
  /\ currentPage = 1
  /\ view = [bookmarks |-> ArrayOf(<<>>), loading |-> FALSE, currentPage |-> 1]
  /\ phase = "up"
  /\ fetches = EmptyBag
  /\ load = "done"
  /\ saves = EmptyBag
  /\ primary = Absent
  /\ backup = Absent
  /\ ev = Ev("fetchOk", 1, ArrayBody(<<Job(1, 1)>>), <<Job(1, 1)>>, <<>>)

NextToggle ==
  \/ ToggleBookmark(jobs[1])
  \/ SaveSteps
  \/ Render

SpecToggle == InitToggle /\ [][NextToggle]_vars

\* The listing fetcher against a server with one fixed page per page
\* number, the pages holding different ids.
PageBody(p) == ArrayBody(<<Job(p, 1)>>)

PagedFetchSteps ==
  /\ phase # "crashed"
  /\ \E f \in BagToSet(fetches) :
       \/ FetchResponseOk(f)
       \/ FetchResponseFail(f)
       \/ FetchJsonFail(f)
       \/ FetchJsonOk(f, PageBody(f.page))

NextPaged ==
  \/ JobsScreenMount
  \/ ProviderMount
  \/ FetchJobs
  \/ LoadMoreJobs
  \/ HandleLoadMore
  \/ PagedFetchSteps
  \/ LoadSteps
  \/ Render

SpecPaged == Init /\ [][NextPaged]_vars

\* The startup calls with every storage and network call settling: the
\* effects run, and a promise that is awaited resolves or rejects.
SpecSettles ==
  /\ SpecEnvelope
  /\ WF_vars(JobsScreenMount)
  /\ WF_vars(ProviderMount)
  /\ WF_vars(FetchSteps(EnvelopeBodies))
  /\ WF_vars(LoadSteps)

\* no fetchJobs call and no loadBookmarks call is in flight
Idle == phase = "up" /\ fetches = EmptyBag /\ load = "done"

\* ================================================================== claims
FailOps == {"fetchRejected", "fetchNotOk", "fetchBadJson"}
CallOps == {"screenMount", "providerMount", "fetchJobs", "loadMoreJobs", "handleLoadMore", "response"}

\* C1: after a successful fetchJobs(1) the listing is exactly the array
\* extracted from that response, whatever the listing held before.
Thm_C1 == (ev.op = "fetchOk" /\ ev.page = 1) => jobs = ev.arr

\* a page 1 that replaced a different, non-empty listing
W_C1 ==
  /\ ev.op = "fetchOk" /\ ev.page = 1
  /\ ev.prev # <<>> /\ ev.arr # <<>> /\ ev.arr # ev.prev
  /\ jobs = ev.arr

\* C2: after a successful fetchJobs(k), k > 1, the listing is the listing
\* the response was applied to followed by the extracted array: it is longer
\* by the number of extracted records and every prior entry keeps its place.
Thm_C2 ==
  (ev.op = "fetchOk" /\ ev.page > 1) =>
    /\ jobs = ev.prev \o ev.arr
    /\ Len(jobs) = Len(ev.prev) + Len(ev.arr)
    /\ \A i \in 1..Len(ev.prev) : jobs[i] = ev.prev[i]

\* a page 2 of one record appended to a non-empty listing
W_C2 ==
  /\ ev.op = "fetchOk" /\ ev.page = 2
  /\ Len(ev.prev) = 1 /\ Len(ev.arr) = 1
  /\ jobs = ev.prev \o ev.arr

\* C3: the array extracted from a body is the body when it is an array;
\* else the results field if present, else the jobs field if present, else
\* the data field if present; else the empty array.  A field is present
\* when it holds a value (it is neither missing nor null).
Present(f) == f.def \notin {"undefined", "null"}
Extracted(body) ==
  CASE body.kind = "array" -> body.items
    [] body.kind = "object" /\ Present(body.results) -> body.results.v
    [] body.kind = "object" /\ ~Present(body.results) /\ Present(body.jobs) -> body.jobs.v
    [] body.kind = "object" /\ ~Present(body.results) /\ ~Present(body.jobs) /\ Present(body.data) -> body.data.v
    [] OTHER -> <<>>

Thm_C4 ==
  [][ /\ ev'.op \in FailOps =>
           /\ error' = FetchError
           /\ loading' = FALSE
           /\ jobs' = jobs
           /\ currentPage' = currentPage
      /\ ev'.op \in CallOps => (jobs' = jobs /\ currentPage' = currentPage)
      /\ currentPage' # currentPage => (ev'.op = "fetchOk" /\ currentPage' = ev'.page)
    ]_vars

\* fetchJobs(1) has failed to parse while the listing is at page 2
W_C4 ==
  /\ ev.op = "fetchBadJson" /\ ev.page = 1
  /\ currentPage = 2 /\ jobs # <<>>
  /\ error = FetchError /\ ~loading

\* C5: at most one fetchJobs request is outstanding at any time.
CE_C5 == BagCardinality(fetches) <= 1

\* C6: the loading flag is true whenever a fetchJobs request is outstanding.
CE_C6 == fetches # EmptyBag => loading

\* C7: loadMoreJobs changes nothing when the loading flag is true, and
\* otherwise issues exactly fetchJobs(currentPage + 1).
CE_C7 ==
  [][ ev'.op = "loadMoreJobs" =>
        IF loading
        THEN UNCHANGED <<bookmarks, jobs, loading, error, currentPage, fetches>>
        ELSE fetches' = fetches (+) One([page |-> currentPage + 1, pc |-> "fetch"])
    ]_vars

\* C8: the in-memory bookmark list never holds two entries with one id.
CE_C8 == NoDupIds(bookmarks.jobs)

\* C9: toggleBookmark(job) removes the entry with job.id when the id is in
\* the bookmark list and otherwise appends the record; entries with another
\* id are left as they were.
CE_C9 ==
  [][ ev'.op = "toggle" =>
        LET job == ev'.arr[1]
            Other(b) == b.id # job.id
        IN  /\ IF job.id \in Ids(bookmarks.jobs)
               THEN job.id \notin Ids(bookmarks'.jobs)
               ELSE bookmarks'.jobs = Append(bookmarks.jobs, job)
            /\ SelectSeq(bookmarks'.jobs, Other) = SelectSeq(bookmarks.jobs, Other)
    ]_vars

\* C10: two toggleBookmark calls for one job, with no other segment of the
\* program between them, leave the set of bookmarked ids as it was before
\* the first.
CE_C10 ==
  [][ (ev.op = "toggle" /\ ev'.op = "toggle" /\ ev'.arr = ev.arr) =>
        Ids(bookmarks'.jobs) = Ids(ev.prev)
    ]_vars

\* C11: when the first read of loadBookmarks finds a parseable bundle under
\* the primary key, the in-memory bookmark list becomes the bundle's jobs
\* list, so the bookmarked ids are the ids that were persisted.
CE_C11 ==
  ev.op = "loadOk" =>
    /\ bookmarks = ArrayOf(primary.jobs)
    /\ Ids(bookmarks.jobs) = Ids(primary.jobs)

\* C12: loadBookmarks moves only from its first read to the removal or the
\* end, from the removal to the second read or the end, and from the second
\* read to the end (two reads at most, never a third); unparseable data at
\* the first read leads to the removal of the primary entry and, once it is
\* removed, to the one retry; when the retry fails the bookmark list is
\* empty and the load error is set; nothing is thrown out of the function.
LoadMoves ==
  {<<"read0", "done">>, <<"read0", "remove">>, <<"remove", "read1">>,
   <<"remove", "done">>, <<"read1", "done">>}

Thm_C12 ==
  [][ /\ load' # load => <<load, load'>> \in LoadMoves
      /\ (load = "read0" /\ primary.kind = "corrupt" /\ load' # load) => load' = "remove"
      /\ (load = "remove" /\ load' = "read1") => primary' = Absent
      /\ (load = "read1" /\ ev'.op \in {"loadFailed", "loadReadFailed"}) =>
           (load' = "done" /\ error' = LoadError /\ bookmarks' = ArrayOf(<<>>))
      /\ phase' # "crashed"
    ]_vars

\* the unparseable entry has been removed and the one retry is reading
W_C12 ==
  /\ ev.op = "loadRetry" /\ ev.arr = <<Corrupt>>
  /\ primary = Absent /\ load = "read1"

\* C13: with loadBookmarks alone, the loading flag is true for as long as
\* the load, its retry included, has not finished.
CE_C13 == load \in {"read0", "remove", "read1"} => loading

\* the records persisted under the two keys
PersistedRecords ==
  {primary.jobs[i] : i \in 1..Len(primary.jobs)} \cup {backup.jobs[i] : i \in 1..Len(backup.jobs)}

\* C14: every record of a bundle that saveBookmarks wrote has only keys of
\* the whitelist, whatever keys the bookmarked record has.
Thm_C14 == \A e \in PersistedRecords : DOMAIN e \subseteq Whitelist

\* a record with an unknown key has been persisted without it
W_C14 ==
  /\ primary.kind = "bundle" /\ Len(primary.jobs) = 1
  /\ "fee_details" \in DOMAIN jobs[1]
  /\ "fee_details" \notin DOMAIN primary.jobs[1]
  /\ primary.jobs[1].id = jobs[1].id

ResolvedKeys ==
  {<<"experience", "Experience">>, <<"job_type", "Job_Type">>, <<"qualification", "Qualification">>}

\* C15: for experience, job_type and qualification the persisted value is
\* the primary_details value under the capitalized key when the top-level
\* value is a number and that primary_details field exists (it is neither
\* missing nor null), and the top-level value in every other case.
CE_C15 ==
  \A e \in PersistedRecords : \A kK \in ResolvedKeys :
    LET top == Get(jobs[1], kK[1])
        detail == Member(Get(jobs[1], "primary_details"), kK[2])
    IN  Get(e, kK[1]) = IF top.def = "number" /\ Present(detail) THEN detail ELSE top

\* C15 as amended: ... when the top-level value is a number and the
\* primary_details field holds a truthy value (not missing, null, 0 or the
\* empty string), and the top-level value in every other case.
Thm_C15 ==
  \A e \in PersistedRecords : \A kK \in ResolvedKeys :
    LET top == Get(jobs[1], kK[1])
        detail == Member(Get(jobs[1], "primary_details"), kK[2])
    IN  Get(e, kK[1]) = IF top.def = "number" /\ Truthy(detail) THEN detail ELSE top

\* {id: 5, experience: 3, primary_details: {Experience: "2-4 yrs"}} has been
\* persisted with experience "2-4 yrs", next to a job_type that is a string
\* and was kept although primary_details has a Job_Type
W_C15 ==
  /\ primary.kind = "bundle" /\ Len(primary.jobs) = 1
  /\ Get(jobs[1], "experience") = Num(3)
  /\ Member(Get(jobs[1], "primary_details"), "Experience") = Str("2-4 yrs")
  /\ Get(primary.jobs[1], "experience") = Str("2-4 yrs")
  /\ Get(jobs[1], "job_type") = Str("Part time")
  /\ Member(Get(jobs[1], "primary_details"), "Job_Type") = Str("Full time")
  /\ Get(primary.jobs[1], "job_type") = Str("Part time")

\* C16: the persisted salary is primary_details.Salary whenever that field
\* exists (it is neither missing nor null), and the top-level salary
\* otherwise.
CE_C16 ==
  \A e \in PersistedRecords :
    LET detail == Member(Get(jobs[1], "primary_details"), "Salary")
    IN  Get(e, "salary") = IF Present(detail) THEN detail ELSE Get(jobs[1], "salary")

\* C16 as amended: ... whenever that field holds a truthy value (not
\* missing, null, 0 or the empty string), and the top-level salary otherwise.
Thm_C16 ==
  \A e \in PersistedRecords :
    LET detail == Member(Get(jobs[1], "primary_details"), "Salary")
    IN  Get(e, "salary") = IF Truthy(detail) THEN detail ELSE Get(jobs[1], "salary")

\* primary_details.Salary has been persisted in place of a different
\* top-level salary
W_C16 ==
  /\ primary.kind = "bundle" /\ Len(primary.jobs) = 1
  /\ Get(jobs[1], "salary") = Str("12000")
  /\ Member(Get(jobs[1], "primary_details"), "Salary") = Str("15000")
  /\ Get(primary.jobs[1], "salary") = Str("15000")

\* C17: saveBookmarks writes one bundle under the primary key and under the
\* backup key; when the primary write fails the backup write is still
\* attempted; a failed write sets the storage error and leaves the
\* in-memory bookmark list as it is.
CE_C17 ==
  [][ /\ ev'.op = "savedPrimary" => primary' = Bundle(ev'.arr)
      /\ ev'.op = "savedBackup" => backup' = Bundle(ev'.arr)
      /\ ev'.op \in {"savePrimaryFailed", "saveBackupFailed"} =>
           (error' = SaveError /\ bookmarks' = bookmarks)
      /\ ev'.op = "savePrimaryFailed" =>
           LET attempt == [data |-> ev'.arr, pc |-> "backup"]
           IN  CopiesIn(attempt, saves') = CopiesIn(attempt, saves) + 1
    ]_vars

\* C18: saveBookmarks with a value that is no array sets the storage error
\* and starts no write: both keys hold what they held.
Thm_C18 ==
  [][ ev'.op = "saveInvalid" =>
        /\ error' = SaveError
        /\ saves' = saves
        /\ primary' = primary /\ backup' = backup
    ]_vars

\* the bundle object was handed to saveBookmarks while a bundle is stored
W_C18 ==
  /\ ev.op = "saveInvalid" /\ ev.arr[1].def = "object"
  /\ error = SaveError
  /\ primary.kind = "bundle" /\ backup.kind = "bundle" /\ saves = EmptyBag

\* C19: a cancelled clearBookmarks changes neither the bookmark list nor
\* the two keys nor the error slot; a confirmed one requests the removal of
\* the primary key and, when the removal is done, the primary key is absent,
\* the backup key holds what it held and the bookmark list is empty.
Thm_C19 ==
  [][ /\ ev'.op = "clearCancel" => UNCHANGED <<bookmarks, primary, backup, error, saves>>
      /\ (ev'.op = "clearConfirm" /\ ev' # ev) =>
           /\ saves' = saves (+) One([data |-> <<>>, pc |-> "clear"])
           /\ backup' = backup
      /\ ev'.op = "clearOk" =>
           /\ primary' = Absent
           /\ backup' = backup
           /\ bookmarks' = ArrayOf(<<>>)
    ]_vars

\* two bookmarks have been cleared: the primary is gone, the backup is not
W_C19 ==
  /\ ev.op = "clearOk" /\ Len(ev.prev) = 2
  /\ bookmarks = ArrayOf(<<>>)
  /\ primary = Absent /\ backup.kind = "bundle"

\* C20: verifyAndRepairBookmarks copies the backup value to the primary key
\* exactly when it read no primary and a backup, and then returns the
\* parsed backup; otherwise it writes nothing and returns the parsed primary
\* it read, or the empty array when it read none.  (What does not parse,
\* and a storage call that fails, give the empty array.)  The backup key is
\* never written.
Thm_C20 ==
  [][ /\ ev'.op \in {"verify", "verifyReadMain", "verifyRestoring", "verifyReturn", "verifyRestored", "verifyFailed"} =>
           backup' = backup
      /\ ev'.op \in {"verify", "verifyReadMain", "verifyRestoring", "verifyReturn", "verifyFailed"} =>
           primary' = primary
      /\ ev'.op = "verifyRestoring" =>
           (~Stored(ev'.prev[1]) /\ Stored(ev'.prev[2]))
      /\ ev'.op = "verifyRestored" =>
           /\ ~Stored(ev'.prev[1]) /\ Stored(ev'.prev[2])
           /\ primary' = ev'.prev[2]
           /\ ev'.arr = <<IF Parses(ev'.prev[2]) THEN ev'.prev[2] ELSE ArrayOf(<<>>)>>
      /\ ev'.op = "verifyReturn" =>
           /\ ~(~Stored(ev'.prev[1]) /\ Stored(ev'.prev[2]))
           /\ ev'.arr = <<IF Parses(ev'.prev[1]) THEN ev'.prev[1] ELSE ArrayOf(<<>>)>>
      /\ ev'.op = "verifyFailed" => ev'.arr = <<ArrayOf(<<>>)>>
    ]_vars

\* the primary has been restored from the backup and the bundle returned
W_C20 ==
  /\ ev.op = "verifyRestored"
  /\ ev.prev[1] = Absent /\ ev.prev[2].kind = "bundle"
  /\ primary = backup /\ primary = ev.prev[2]
  /\ ev.arr = <<backup>>

\* C21: with invalid JSON under the primary key and a one-job bundle under
\* the backup key, nothing ever writes the backup key, loadBookmarks ends
\* with an empty bookmark list, and a verifyAndRepairBookmarks call made
\* after the load that returns (no storage call having failed) leaves the
\* backup's bundle, with its one job, under the primary key.
Thm_C21 ==
  [][ /\ backup' = backup
      /\ load' = "done" => bookmarks' = ArrayOf(<<>>)
      /\ (ev'.op \in {"verifyRestored", "verifyReturn"} /\ error' = NULL) =>
           /\ primary' = backup'
           /\ Len(primary'.jobs) = 1
    ]_vars

\* the load has ended with nothing bookmarked and the call has restored job 1
W_C21 ==
  /\ ev.op = "verifyRestored" /\ ev.prev[1] = Absent
  /\ load = "done" /\ error = NULL
  /\ bookmarks = ArrayOf(<<>>)
  /\ primary = backup /\ Ids(primary.jobs) = {Num(1)}

\* C27: when the consumer saves, clears and repairs one after the other, a
\* confirmed clear leaves the primary key absent and the backup as it was;
\* a verifyAndRepairBookmarks call reads what is under the primary key, does
\* not return without a restore while the primary is absent and the backup
\* present, and its restore puts the backup's bundle, the bookmarks that were
\* cleared, under the primary key.
Thm_C27 ==
  [][ /\ ev'.op = "clearOk" => (primary' = Absent /\ backup' = backup)
      /\ ev'.op = "verifyReadMain" => ev'.prev = <<primary>>
      /\ ev'.op = "verifyReturn" => ~(primary = Absent /\ Stored(backup))
      /\ ev'.op = "verifyRestored" => (primary' = backup /\ Stored(backup))
    ]_vars

\* the bookmark of job 1 was saved and cleared and is back under the primary
\* key while the bookmark list is empty
W_C27 ==
  /\ ev.op = "verifyRestored" /\ ev.prev[1] = Absent
  /\ bookmarks = ArrayOf(<<>>)
  /\ primary = Bundle(EssentialJobData(<<Job(1, 1)>>))
  /\ backup = primary

\* C22: when an operation (fetchJobs, loadBookmarks, toggleBookmark with its
\* writes, clearBookmarks) ends successfully the error slot is null, and
\* when it fails the slot holds the message of that operation.
SuccessOps == {"fetchOk", "loadNone", "loadOk", "savedBackup", "clearOk"}

CE_C22 ==
  [][ /\ ev'.op \in SuccessOps => error' = NULL
      /\ ev'.op \in FailOps => error' = FetchError
      /\ ev'.op \in {"loadFailed", "loadRemoveFailed"} => error' = LoadError
      /\ ev'.op \in {"savePrimaryFailed", "saveBackupFailed"} => error' = SaveError
      /\ ev'.op = "clearFailed" => error' = ClearError
    ]_vars

\* C23: every call of fetchJobs leaves the error slot null when its request
\* goes out, whatever the slot held.
Thm_C23 ==
  [][ ev'.op \in {"fetchJobs", "loadMoreJobs", "handleLoadMore", "screenMount", "providerMount"} =>
        error' = NULL
    ]_vars

\* fetchJobs was called with an error shown, after a bookmark whose primary
\* write had failed (nothing stored, no write outstanding): the slot is null
\* and the request is out
W_C23 ==
  /\ ev.op = "fetchJobs" /\ error = NULL
  /\ [page |-> 1, pc |-> "fetch"] \in BagToSet(fetches)
  /\ bookmarks.jobs # <<>> /\ saves = EmptyBag
  /\ primary = Absent /\ backup = Absent

\* C24: every toggleBookmark call that changes the bookmark list (or starts
\* a write) starts exactly one saveBookmarks call, and that call writes the
\* projection of the new list.
Thm_C24 ==
  [][ (ev'.op = "toggle" /\ <<bookmarks, saves>>' # <<bookmarks, saves>>) =>
        saves' = saves (+) One([data |-> EssentialJobData(bookmarks'.jobs), pc |-> "primary"])
    ]_vars

\* the last bookmark has been removed and the write of the empty list is out
W_C24 ==
  /\ ev.op = "toggle" /\ ev.prev # <<>>
  /\ bookmarks = ArrayOf(<<>>)
  /\ [data |-> <<>>, pc |-> "primary"] \in BagToSet(saves)

\* C25: when the server's pages hold different ids, the listing never holds
\* two entries with one id.
CE_C25 == NoDupIds(jobs)

\* C26: isBookmarked(id) gives true exactly when the bookmark list holds an
\* entry with that id, and false otherwise.
CE_C26 ==
  \A i \in 1..Len(jobs) :
    IsBookmarkedResult(view.bookmarks, jobs[i].id)
      = IF jobs[i].id \in Ids(bookmarks.jobs) THEN "true" ELSE "false"

\* C28: when a response arrives while another fetchJobs call is in flight
\* and that call's response arrives next, the listing is the array of the
\* later response and the page counter its page.
CE_C28 ==
  [][ (ev.op = "fetchOk" /\ ev'.op = "fetchOk" /\ fetches # EmptyBag /\ fetches' # fetches) =>
        (jobs' = ev'.arr /\ currentPage' = ev'.page)
    ]_vars

\* C28 as amended: ... the page counter is the page of the later response,
\* and the listing is the array of the later response when that is for page
\* 1, and otherwise the listing the earlier response left followed by that
\* array.
Thm_C28 ==
  [][ (ev.op = "fetchOk" /\ ev'.op = "fetchOk" /\ fetches # EmptyBag /\ fetches' # fetches) =>
        /\ currentPage' = ev'.page
        /\ jobs' = IF ev'.page = 1 THEN ev'.arr ELSE jobs \o ev'.arr
    ]_vars

\* the response for page 1 has arrived and filled the listing while the
\* overlapping call for page 2 has its response and is reading the body
W_C28 ==
  /\ ev.op = "fetchOk" /\ ev.page = 1 /\ jobs = ev.arr /\ jobs # <<>>
  /\ currentPage = 1
  /\ [page |-> 2, pc |-> "json"] \in BagToSet(fetches)

\* C29: when no write is outstanding and none has failed, the ids under the
\* primary key are the ids of the bookmark list.
CE_C29 ==
  (saves = EmptyBag /\ error = NULL) => Ids(primary.jobs) = Ids(bookmarks.jobs)

\* C30: the end of loadBookmarks drops no bookmark that a toggleBookmark
\* call made while the load was reading.
CE_C30 ==
  [][ ev'.op = "loadOk" => Ids(bookmarks.jobs) \subseteq Ids(bookmarks'.jobs) ]_vars

\* C31: the fetchJobs calls and the loadBookmarks call of the startup all
\* end, whatever their storage and network calls answer, and whenever none
\* is in flight the loading flag is false.
Thm_C31 == [](Idle => loading = FALSE) /\ <>[]Idle

\* every startup call has ended, the retry of loadBookmarks as the last of
\* them and with a failed read
W_C31 ==
  /\ Idle /\ loading = FALSE
  /\ ev.op = "loadReadFailed" /\ ev.page = 1
  /\ error = LoadError

\* C32: when the removal requested by a confirmed clearBookmarks fails, the
\* bookmark list and the two keys are what they were and the error slot
\* holds the clear failure message.
Thm_C32 ==
  [][ ev'.op = "clearFailed" =>
        /\ bookmarks' = bookmarks
        /\ bookmarks'.jobs = ev'.prev
        /\ primary' = primary /\ backup' = backup
        /\ error' = ClearError
    ]_vars

\* the removal has failed with two bookmarks in the list
W_C32 ==
  /\ ev.op = "clearFailed" /\ Len(ev.prev) = 2
  /\ bookmarks.jobs = ev.prev
  /\ primary.kind = "bundle"
  /\ error = ClearError /\ saves = EmptyBag

====
